---- MODULE Spec2Model ----
(***************************************************************************)
(* A model of the urban-mobility resilience engine                         *)
(* (src/backend/urban_resilience): scenario-driven edge selection, OD      *)
(* sampling, the single-shock simulation, the progressive sweep, the two   *)
(* POST endpoints and the USGS hazard download.                            *)
(*                                                                         *)
(* Networks are directed multigraphs on the nodes 1..NumNodes; an edge is  *)
(* the triple <<u, v, k>>.  The networks are those built by adding nodes   *)
(* and edges in ascending order, so that networkx iterates nodes and       *)
(* adjacencies in ascending order.  A severity is the fraction             *)
(* num / SevDen.  numpy's generator is modelled by a small multiplicative  *)
(* congruential generator: a deterministic function of the seed.           *)
(*                                                                         *)
(* pc is the position of the operation under way, heap the graph objects   *)
(* (g the network the caller holds, tmp the copy a simulation makes), args *)
(* the inputs, ret the value returned or the error raised, rows the table  *)
(* a sweep is building, log the external accesses of a request, loc the    *)
(* loop indices, env the entropy of the operating system.                  *)
(***************************************************************************)
EXTENDS Integers, Sequences, FiniteSets, TLC

VARIABLES pc, heap, args, ret, rows, log, loc, env

vars == <<pc, heap, args, ret, rows, log, loc, env>>

\* ------------------------------------------------------------- bounds
NumNodes == 4
MaxEdges == 3
SevDen == 4
MaxSeed == 2
MaxPairs == 2
MaxSevs == 2
MaxRuns == 2

\* ---------------------------------------------------- program constants
PenaltyRatio == 5
RetryFactor == 20
SeedStride == 100
DefaultBaseSeed == 42

SCENARIOS ==
  {"Bridge Collapse", "Tunnel Closure", "Highway Flood",
   "Targeted Attack (Top k%)", "Random Failure"}

\* ------------------------------------------------------------ networks
Nodes == 1..NumNodes

EdgeIds == {<<u, v, k>> : u \in Nodes, v \in Nodes, k \in {0, 1}}

\* The edges that may be added to S: no self-loop, a street joins nodes at
\* most two apart, key 1 only beside key 0.
Addable(S) ==
  {f \in EdgeIds : /\ f[1] # f[2]
                   /\ f[1] - f[2] \in -2..2
                   /\ f[3] = 1 => <<f[1], f[2], 0>> \in S}

RECURSIVE NetsUpTo(_)
NetsUpTo(n) ==
  IF n = 0 THEN {{}}
  ELSE LET P == NetsUpTo(n - 1)
       IN P \cup UNION {{S \cup {e} : e \in Addable(S)} : S \in P}

\* The networks of the model: at most MaxEdges edges, no self-loop, streets
\* between nodes at most two apart, and a second parallel edge (key 1) only
\* beside the first (key 0).
Networks == {S \in NetsUpTo(MaxEdges) : Cardinality(S) <= MaxEdges}

EdgeLess(e, f) ==
  \/ e[1] < f[1]
  \/ e[1] = f[1] /\ e[2] < f[2]
  \/ e[1] = f[1] /\ e[2] = f[2] /\ e[3] < f[3]

RECURSIVE EdgeList(_)
\* list(G.edges(keys=True)): by source node, then target, then key.
EdgeList(S) ==
  IF S = {} THEN <<>>
  ELSE LET e == CHOOSE x \in S : \A y \in S : x = y \/ EdgeLess(x, y)
       IN <<e>> \o EdgeList(S \ {e})

Range(s) == {s[i] : i \in 1..Len(s)}

\* A finite sequence with every entry evaluated once.
Eager(s) == s \o <<>>

\* A test that ignores the key: any edge between the two nodes.
has_edge_nokey(S, e) == \E f \in S : f[1] = e[1] /\ f[2] = e[2]

\* G.has_edge(u, v, k)
has_edge(S, e) == e \in S

Succ(S, u) == {e[2] : e \in {f \in S : f[1] = u}}

Nbrs(S, u) == Succ(S, u) \cup {e[1] : e \in {f \in S : f[2] = u}}

RECURSIVE ReachFrom(_, _, _)
ReachFrom(S, seen, weak) ==
  LET more == UNION {IF weak THEN Nbrs(S, u) ELSE Succ(S, u) : u \in seen}
  IN IF more \subseteq seen THEN seen ELSE ReachFrom(S, seen \cup more, weak)

WeakComponent(S, u) == ReachFrom(S, {u}, TRUE)

\* max(nx.weakly_connected_components(G), key=len): the components come in
\* the order of their first node and max keeps the first of the largest.
LargestComponentNodes(S) ==
  LET comps == Eager([u \in 1..NumNodes |-> WeakComponent(S, u)])
      best == CHOOSE u \in Nodes :
                \A w \in Nodes :
                  \/ Cardinality(comps[w]) < Cardinality(comps[u])
                  \/ Cardinality(comps[w]) = Cardinality(comps[u]) /\ u <= w
  IN comps[best]

RECURSIVE SetToSeq(_)
\* list(H.nodes()): ascending.
SetToSeq(X) ==
  IF X = {} THEN <<>>
  ELSE LET m == CHOOSE x \in X : \A y \in X : x <= y
       IN <<m>> \o SetToSeq(X \ {m})

PairLess(p, q) == p[1] < q[1] \/ (p[1] = q[1] /\ p[2] < q[2])

RECURSIVE SetToSeqOfPairs(_)
SetToSeqOfPairs(X) ==
  IF X = {} THEN <<>>
  ELSE LET m == CHOOSE x \in X : \A y \in X : x = y \/ PairLess(x, y)
       IN <<m>> \o SetToSeqOfPairs(X \ {m})

RECURSIVE SumSeq(_)
SumSeq(s) == IF s = <<>> THEN 0 ELSE Head(s) + SumSeq(Tail(s))

RECURSIVE ProdSeq(_)
ProdSeq(s) == IF s = <<>> THEN 1 ELSE Head(s) * ProdSeq(Tail(s))

Max2(a, b) == IF a >= b THEN a ELSE b

\* s[:n]
Prefix(s, n) == SubSeq(s, 1, IF n < Len(s) THEN n ELSE Len(s))

\* ------------------------------------------------------------------ rng
\* seed=None
NoSeed == -1

\* A generator seeded from the operating system, whatever the seed passed.
default_rng_unseeded(seed) == 1 + (env % 30)

\* np.random.default_rng(seed): a generator private to the call, its state a
\* function of the seed; with seed=None, of the operating system's entropy.
default_rng(seed) == IF seed = NoSeed THEN 1 + (env % 30) ELSE 1 + (seed % 30)

RngNext(x) == (3 * x) % 31

\* One bounded draw, in 0..n-1, from the state x (the state then advances).
RngDraw(x, n) == RngNext(x) % n

Swap(s, i, j) == [s EXCEPT ![i] = s[j], ![j] = s[i]]

RECURSIVE ShuffleFrom(_, _, _)
ShuffleFrom(s, i, x) ==
  IF i < 2 THEN s
  ELSE ShuffleFrom(Swap(s, i, 1 + RngDraw(x, i)), i - 1, RngNext(x))

\* rng.shuffle(all_edges): Fisher-Yates from the last position down.
rng_shuffle(s, x) == ShuffleFrom(s, Len(s), x)

\* rng.choice(nodes, size=2, replace=False): two distinct entries; an error
\* when the population has fewer than two.
rng_choice2(nodes, x) ==
  IF Len(nodes) < 2 THEN [err |-> "ValueError", u |-> 0, v |-> 0, x |-> x]
  ELSE LET i == 1 + RngDraw(x, Len(nodes))
           x1 == RngNext(x)
           rest == SubSeq(nodes, 1, i - 1) \o SubSeq(nodes, i + 1, Len(nodes))
           j == 1 + RngDraw(x1, Len(rest))
       IN [err |-> "none", u |-> nodes[i], v |-> rest[j], x |-> RngNext(x1)]

\* ------------------------------------------------------ edge selection
\* int(n * severity) for severity = num / SevDen.
IntTimes(n, num) == (n * num) \div SevDen

\* ceil(n * severity), the count the specification words name.
CeilTimes(n, num) == (n * num + SevDen - 1) \div SevDen

\* The rows of the edge table (in edge order) whose identifier is in X.
EdgesIn(S, X) == SelectSeq(EdgeList(S), LAMBDA e : e \in X)

select_bridge_edges(S, tags) == EdgesIn(S, tags.bridge)

select_tunnel_edges(S, tags) == EdgesIn(S, tags.tunnel)

select_highway_edges(S, tags) == EdgesIn(S, tags.major)

UPair(u, v) == IF u <= v THEN <<u, v>> ELSE <<v, u>>

\* The unordered node pairs joined by an edge: the edges of nx.Graph(G).
UPairs(S) == {UPair(e[1], e[2]) : e \in S}

\* The edges nx.Graph(G) reports at node n: the later successors of n, then
\* the later nodes that are predecessors only, each ascending.
UEdgesAt(S, n) ==
  LET out == {y \in Nodes : y > n /\ y \in Succ(S, n)}
      inn == {y \in Nodes : y > n /\ n \in Succ(S, y) /\ y \notin Succ(S, n)}
      a == SetToSeq(out)
      b == SetToSeq(inn)
  IN [i \in 1..Len(a) |-> <<n, a[i]>>] \o [i \in 1..Len(b) |-> <<n, b[i]>>]

RECURSIVE UEdgeOrderFrom(_, _)
UEdgeOrderFrom(S, n) ==
  IF n > NumNodes THEN <<>> ELSE UEdgesAt(S, n) \o UEdgeOrderFrom(S, n + 1)

\* The key order of the dict nx.edge_betweenness_centrality returns.
UEdgeOrder(S) == UEdgeOrderFrom(S, 1)

RECURSIVE Ball(_, _, _)
Ball(S, s, k) ==
  IF k = 0 THEN {s}
  ELSE LET B == Ball(S, s, k - 1) IN B \cup UNION {Nbrs(S, u) : u \in B}

\* Hop distance in the undirected graph; NumNodes when t is not reachable.
UDist(S, s, t) ==
  IF t \notin Ball(S, s, NumNodes) THEN NumNodes
  ELSE CHOOSE k \in 0..NumNodes : /\ t \in Ball(S, s, k)
                                  /\ k > 0 => t \notin Ball(S, s, k - 1)

UDistTable(S) ==
  Eager([s \in 1..NumNodes |-> Eager([t \in 1..NumNodes |-> UDist(S, s, t)])])

RECURSIVE Sigma(_, _, _, _)
\* The number of shortest s-t paths of the undirected graph (D its distances).
Sigma(S, D, s, t) ==
  IF s = t THEN 1
  ELSE LET prev == {w \in Nbrs(S, t) : D[s][w] = D[s][t] - 1}
           ws == SetToSeq(prev)
       IN SumSeq([i \in 1..Len(ws) |-> Sigma(S, D, s, ws[i])])

SigmaTable(S, D) ==
  Eager([s \in 1..NumNodes |->
    Eager([t \in 1..NumNodes |-> IF D[s][t] < NumNodes THEN Sigma(S, D, s, t) ELSE 0])])

\* The number of shortest s-t paths through the undirected edge {a, b}.
Through(D, Sg, s, t, a, b) ==
  (IF D[s][a] + 1 + D[b][t] = D[s][t] THEN Sg[s][a] * Sg[b][t] ELSE 0)
  + (IF D[s][b] + 1 + D[a][t] = D[s][t] THEN Sg[s][b] * Sg[a][t] ELSE 0)

ConnectedPairs(D) ==
  SetToSeqOfPairs({p \in Nodes \X Nodes : p[1] < p[2] /\ D[p[1]][p[2]] < NumNodes})

\* The betweenness of the undirected edge {a, b}, times a factor common to all
\* edges (the product L of the path counts): the sum over the connected node
\* pairs of the fraction of their shortest paths that use the edge.
BetweennessOf(D, Sg, ps, L, a, b) ==
  SumSeq([i \in 1..Len(ps) |->
    IF D[ps[i][1]][a] < NumNodes
      THEN Through(D, Sg, ps[i][1], ps[i][2], a, b) * (L \div Sg[ps[i][1]][ps[i][2]])
      ELSE 0])

\* nx.edge_betweenness_centrality(undirected).items(): <<pair, value>> in the
\* order of the undirected edges.
edge_betweenness_centrality(S) ==
  LET D == UDistTable(S)
      Sg == SigmaTable(S, D)
      ps == ConnectedPairs(D)
      L == ProdSeq([i \in 1..Len(ps) |-> Sg[ps[i][1]][ps[i][2]]])
      order == UEdgeOrder(S)
  IN Eager([i \in 1..Len(order) |->
       <<order[i], BetweennessOf(D, Sg, ps, L, order[i][1], order[i][2])>>])

RECURSIVE InsertDescUnstable(_, _)
\* A sort that is not stable: an equal key goes in front.
InsertDescUnstable(sorted, kv) ==
  IF sorted = <<>> THEN <<kv>>
  ELSE IF Head(sorted)[2] > kv[2]
         THEN <<Head(sorted)>> \o InsertDescUnstable(Tail(sorted), kv)
         ELSE <<kv>> \o sorted

RECURSIVE InsertDesc(_, _)
InsertDesc(sorted, kv) ==
  IF sorted = <<>> THEN <<kv>>
  ELSE IF Head(sorted)[2] >= kv[2]
         THEN <<Head(sorted)>> \o InsertDesc(Tail(sorted), kv)
         ELSE <<kv>> \o sorted

RECURSIVE SortDescFrom(_, _)
SortDescFrom(todo, sorted) ==
  IF todo = <<>> THEN sorted
  ELSE SortDescFrom(Tail(todo), InsertDesc(sorted, Head(todo)))

\* sorted(bet.items(), key=lambda kv: kv[1], reverse=True): stable.
sorted_edges(S) == SortDescFrom(edge_betweenness_centrality(S), <<>>)

\* n_top = max(1, int(len(sorted_edges) * severity))
n_top(ranked, num) == Max2(1, IntTimes(Len(ranked), num))

\* {tuple(sorted((u, v))) for (u, v), _ in sorted_edges[:n_top]}
top_pairs(S, num) ==
  LET ranked == sorted_edges(S)
  IN {UPair(kv[1][1], kv[1][2]) : kv \in Range(Prefix(ranked, n_top(ranked, num)))}

TargetedCandidates(S, num) ==
  LET top == top_pairs(S, num)
  IN SelectSeq(EdgeList(S), LAMBDA e : UPair(e[1], e[2]) \in top)

\* The count without its floor of one.
n_remove_nomax(S, num) == IntTimes(Len(EdgeList(S)), num)

\* n_remove = max(1, int(len(all_edges) * severity))
n_remove(S, num) == Max2(1, IntTimes(Len(EdgeList(S)), num))

RandomCandidates(S, num, seed) ==
  Prefix(rng_shuffle(EdgeList(S), default_rng(seed)), n_remove(S, num))

\* A hazard polygon is the set of edges whose geometry it intersects; polys is
\* None (some = FALSE) or a list of polygons.
FloodCandidates(S, polys, tags) ==
  IF polys.some /\ polys.list # <<>>
    THEN EdgesIn(S, {e \in S : \E i \in 1..Len(polys.list) : e \in polys.list[i]})
    ELSE select_highway_edges(S, tags)

\* select_edges_for_scenario(G, scenario, severity, usgs_flood_polygons, seed);
\* q carries scenario, sev (the numerator), polys, seed and the edge tags.
select_edges_for_scenario(S, q) ==
  IF q.scenario \notin SCENARIOS
    THEN [err |-> "ValueError", edges |-> <<>>, read |-> FALSE]
    ELSE [err |-> "none", read |-> TRUE,
          edges |->
            CASE q.scenario = "Bridge Collapse" -> select_bridge_edges(S, q.tags)
              [] q.scenario = "Tunnel Closure" -> select_tunnel_edges(S, q.tags)
              [] q.scenario = "Highway Flood" -> FloodCandidates(S, q.polys, q.tags)
              [] q.scenario = "Targeted Attack (Top k%)" -> TargetedCandidates(S, q.sev)
              [] q.scenario = "Random Failure" -> RandomCandidates(S, q.sev, q.seed)]

\* ------------------------------------------------------------ rationals
\* A float result is the exact fraction <<num, den>> in lowest terms.
RECURSIVE GCD(_, _)
GCD(a, b) == IF b = 0 THEN a ELSE GCD(b, a % b)

Rat(n, d) == LET g == GCD(n, d) IN IF g = 0 THEN <<0, 1>> ELSE <<n \div g, d \div g>>

RatAdd(a, b) == Rat(a[1] * b[2] + b[1] * a[2], a[2] * b[2])

RatLeq(a, b) == a[1] * b[2] <= b[1] * a[2]

RECURSIVE RatSum(_)
RatSum(s) == IF s = <<>> THEN <<0, 1>> ELSE RatAdd(Head(s), RatSum(Tail(s)))

\* np.mean(ratios)
Mean(s) == LET t == RatSum(s) IN Rat(t[1], t[2] * Len(s))

RECURSIVE RatInsert(_, _)
RatInsert(sorted, r) ==
  IF sorted = <<>> THEN <<r>>
  ELSE IF RatLeq(Head(sorted), r)
         THEN <<Head(sorted)>> \o RatInsert(Tail(sorted), r)
         ELSE <<r>> \o sorted

RECURSIVE RatSort(_)
RatSort(s) == IF s = <<>> THEN <<>> ELSE RatInsert(RatSort(Tail(s)), Head(s))

\* np.median(ratios)
Median(s) ==
  LET t == RatSort(s)
      n == Len(s)
  IN IF n % 2 = 1 THEN t[(n + 1) \div 2]
     ELSE Mean(<<t[n \div 2], t[n \div 2 + 1]>>)

\* ---------------------------------------------------------- OD sampling
\* The loop state of sample_od_pairs: the pairs accepted, the draws made,
\* the generator, and the error raised inside the loop.
SampleStart(seed) ==
  [pairs |-> <<>>, attempts |-> 0, x |-> default_rng(seed), err |-> "none"]

\* while len(pairs) < n_pairs and attempts < max_attempts
SampleMore(st, n_pairs) ==
  /\ st.err = "none"
  /\ Len(st.pairs) < n_pairs
  /\ st.attempts < n_pairs * RetryFactor

\* H = _largest_component(G) as the sampler reads it: its node list and,
\* for each node, the nodes a directed path inside H leads to.
LargestComponent(S) ==
  LET comp == LargestComponentNodes(S)
      edges == {e \in S : e[1] \in comp /\ e[2] \in comp}
  IN [nodes |-> SetToSeq(comp),
      reach |-> Eager([u \in 1..NumNodes |-> ReachFrom(edges, {u}, FALSE)])]

\* A sampler that accepts every draw.
AcceptAll(H, u, v) == TRUE

\* if nx.has_path(H, u, v): pairs.append((u, v))
Accept(H, u, v) == v \in H.reach[u]

\* One pass of the loop body on the largest component H.
SampleStep(H, st) ==
  LET c == rng_choice2(H.nodes, st.x)
  IN IF c.err # "none" THEN [st EXCEPT !.err = c.err]
     ELSE [st EXCEPT !.x = c.x,
                     !.attempts = @ + 1,
                     !.pairs = IF Accept(H, c.u, c.v)
                                 THEN Append(@, <<c.u, c.v>>) ELSE @]

RECURSIVE SampleLoop(_, _, _)
SampleLoop(H, st, n_pairs) ==
  IF SampleMore(st, n_pairs) THEN SampleLoop(H, SampleStep(H, st), n_pairs)
  ELSE st

\* What sample_od_pairs does once the loop has ended.
SampleEnd(st) ==
  IF st.err # "none" THEN [st EXCEPT !.pairs = <<>>]
  ELSE IF st.pairs = <<>> THEN [st EXCEPT !.err = "RuntimeError"]
  ELSE st

\* sample_od_pairs(G, n_pairs, seed)
sample_od_pairs(S, n_pairs, seed) ==
  SampleEnd(SampleLoop(LargestComponent(S), SampleStart(seed), n_pairs))

\* ------------------------------------------------------- shortest paths
Abs(n) == IF n < 0 THEN -n ELSE n

\* The attributes of an edge: every edge has a length; the edges that leave
\* node 1 have no travel_time.
HasTravelTime(e) == e[1] # 1

Length(e) == Abs(e[1] - e[2]) + e[3]

TravelTime(e) == 1 + 2 * e[3]

\* _weight_attr(G): decided on the first edge alone.
weight_attr(S) ==
  IF S = {} THEN "length"
  ELSE IF HasTravelTime(Head(EdgeList(S))) THEN "travel_time" ELSE "length"

\* The weight networkx reads: the attribute, or 1 where the edge lacks it.
Weight(e, attr) ==
  IF attr = "length" THEN Length(e)
  ELSE IF HasTravelTime(e) THEN TravelTime(e) ELSE 1

Unreached == 1000

Min2(a, b) == IF a <= b THEN a ELSE b

\* The least number of X, or Unreached when X is empty.
MinOf(X) == IF X = {} THEN Unreached ELSE CHOOSE m \in X : \A y \in X : m <= y

Relax(S, attr, d) ==
  Eager([x \in 1..NumNodes |->
    Min2(d[x], MinOf({d[e[1]] + Weight(e, attr) :
                        e \in {f \in S : f[2] = x /\ d[f[1]] < Unreached}}))])

RECURSIVE RelaxTimes(_, _, _, _)
RelaxTimes(S, attr, d, k) ==
  IF k = 0 THEN d ELSE RelaxTimes(S, attr, Relax(S, attr, d), k - 1)

\* nx.astar_path_length(G, u, v, weight): the least total weight of a path,
\* or NetworkXNoPath.
astar_path_length(S, u, v, attr) ==
  LET d0 == Eager([x \in 1..NumNodes |-> IF x = u THEN 0 ELSE Unreached])
      d == RelaxTimes(S, attr, d0, NumNodes - 1)
  IN [nopath |-> d[v] >= Unreached, len |-> d[v]]

\* ----------------------------------------------------------- the shock
\* No copy: the same object under a second name.
GraphCopyAlias(h) == "g"

\* G.copy(): a new graph object, named by its reference.
GraphCopy(h) == "tmp"

RECURSIVE RemoveLoopCountAll(_, _, _, _)
\* A loop that counts every listed identifier, present or not.
RemoveLoopCountAll(h, ref, ids, n) ==
  IF ids = <<>> THEN [heap |-> h, n_removed |-> n]
  ELSE RemoveLoopCountAll([h EXCEPT ![ref] = @ \ {Head(ids)}], ref, Tail(ids), n + 1)

RECURSIVE RemoveLoop(_, _, _, _)
\* for u, v, k in edge_ids_to_remove: remove from the object at ref if present.
RemoveLoop(h, ref, ids, n) ==
  IF ids = <<>> THEN [heap |-> h, n_removed |-> n]
  ELSE IF has_edge(h[ref], Head(ids))
         THEN RemoveLoop([h EXCEPT ![ref] = @ \ {Head(ids)}], ref, Tail(ids), n + 1)
         ELSE RemoveLoop(h, ref, Tail(ids), n)

Metrics(e, avg, med, pct, nrem, npairs) ==
  [err |-> e, avg_ratio |-> avg, median_ratio |-> med, pct_disconnected |-> pct,
   n_removed_edges |-> nrem, n_pairs |-> npairs]

Raised(e) == Metrics(e, <<0, 1>>, <<0, 1>>, <<0, 1>>, 0, 0)

RECURSIVE MeasureLoop(_, _, _, _, _)
\* for u, v in pairs: the ratios and the disconnected count.
MeasureLoop(before, after, attr, pairs, acc) ==
  IF pairs = <<>> THEN acc
  ELSE LET u == Head(pairs)[1]
           v == Head(pairs)[2]
           baseline == astar_path_length(before, u, v, attr)
           damaged == astar_path_length(after, u, v, attr)
       IN IF baseline.nopath
            THEN MeasureLoop(before, after, attr, Tail(pairs), acc)
          ELSE IF damaged.nopath
            THEN MeasureLoop(before, after, attr, Tail(pairs),
                   [ratios |-> Append(acc.ratios, <<PenaltyRatio, 1>>),
                    disconnected |-> acc.disconnected + 1])
          ELSE MeasureLoop(before, after, attr, Tail(pairs),
                   [ratios |-> Append(acc.ratios, Rat(damaged.len, baseline.len)),
                    disconnected |-> acc.disconnected])

\* simulate_single_shock(G, edge_ids_to_remove, n_pairs, penalty_ratio, seed)
\* on the heap h, where h.g is the network passed: the heap it leaves and
\* what it returns or raises.
simulate_single_shock(h, ids, n_pairs, seed) ==
  LET ref == GraphCopy(h)
      rm == RemoveLoop([h EXCEPT ![ref] = h.g], ref, ids, 0)
      before == rm.heap.g
      after == rm.heap[ref]
      sampled == sample_od_pairs(before, n_pairs, seed)
      attr == weight_attr(before)
      m == MeasureLoop(before, after, attr, sampled.pairs,
                       [ratios |-> <<>>, disconnected |-> 0])
  IN [heap |-> rm.heap,
      ret |->
        IF rm.n_removed = 0 THEN Metrics("none", <<1, 1>>, <<1, 1>>, <<0, 1>>, 0, 0)
        ELSE IF sampled.err # "none" THEN Raised(sampled.err)
        ELSE IF m.ratios = <<>>
          THEN Metrics("none", <<PenaltyRatio, 1>>, <<PenaltyRatio, 1>>, <<100, 1>>,
                       rm.n_removed, Len(sampled.pairs))
        ELSE Metrics("none", Mean(m.ratios), Median(m.ratios),
                     Rat(100 * m.disconnected, Len(sampled.pairs)),
                     rm.n_removed, Len(sampled.pairs))]

\* ------------------------------------------------- inputs of the model
First(S) == Head(EdgeList(S))

Last(S) == EdgeList(S)[Len(EdgeList(S))]

NoTags == [bridge |-> {}, tunnel |-> {}, major |-> {}]

\* Edge tags of a network: which edges carry a bridge tag, a tunnel tag and a
\* major highway class.
TagFamilies(S) ==
  {NoTags,
   [bridge |-> {First(S)}, tunnel |-> {Last(S)}, major |-> {e \in S : e[3] = 0}],
   [bridge |-> S, tunnel |-> S, major |-> S]}

\* Hazard data: none, an empty list, or polygons over some edges.
NoPolys == [some |-> FALSE, list |-> <<>>]

Polys(l) == [some |-> TRUE, list |-> l]

PolyFamilies(S) == {NoPolys, Polys(<<>>), Polys(<<{First(S)}, {Last(S)}>>), Polys(<<{}>>)}

Severities == 0..SevDen

Seeds == 0..MaxSeed

Query(sc, sv, sd, tg, pl) ==
  [scenario |-> sc, sev |-> sv, seed |-> sd, tags |-> tg, polys |-> pl]

\* The calls of select_edges_for_scenario made on the network S.
SelectInputs(S) ==
  {Query("Random Failure", sv, sd, NoTags, NoPolys) : sv \in Severities, sd \in Seeds}
  \cup {Query("Targeted Attack (Top k%)", sv, 0, NoTags, NoPolys) :
          sv \in {1, SevDen \div 2, SevDen}}
  \cup {Query(sc, sv, 0, tg, NoPolys) :
          sc \in {"Bridge Collapse", "Tunnel Closure"}, sv \in {0, SevDen},
          tg \in TagFamilies(S)}
  \cup {Query("Highway Flood", SevDen, 0, tg, pl) :
          tg \in TagFamilies(S), pl \in PolyFamilies(S)}
  \cup {Query("Earthquake", SevDen, 0, NoTags, NoPolys)}

NewHeap(S) == [g |-> S, tmp |-> {}]

NoLocals == [exec |-> 0, i |-> 0, run |-> 0]

\* The network the caller passed.
G == heap.g

\* --------------------------------------- select_edges_for_scenario alone
InitSelect ==
  /\ pc = "select"
  /\ \E S \in Networks \ {{}} :
       /\ heap = NewHeap(S)
       /\ args \in SelectInputs(S)
  /\ ret = "none"
  /\ rows = <<>>
  /\ log = <<>>
  /\ loc = NoLocals
  /\ env = 0

SelectCall ==
  /\ pc = "select"
  /\ pc' = "selected"
  /\ ret' = select_edges_for_scenario(G, args)
  /\ UNCHANGED <<heap, args, rows, log, loc, env>>

NextSelect == SelectCall

SpecSelect == InitSelect /\ [][NextSelect]_vars

NoDuplicates(s) == \A i, j \in 1..Len(s) : i # j => s[i] # s[j]

Selected(sc) == pc = "selected" /\ args.scenario = sc /\ ret.err = "none"

\* C2 as stated: Random Failure returns exactly max(1, ceil(s*E)) distinct
\* edge identifiers of the network, for every seed.
C2_Original ==
  Selected("Random Failure") =>
    /\ Len(ret.edges) = Max2(1, CeilTimes(Cardinality(G), args.sev))
    /\ NoDuplicates(ret.edges)
    /\ Range(ret.edges) \subseteq G

\* C2 as amended: Random Failure returns exactly max(1, floor(s*E)) distinct
\* edge identifiers of the network, for every seed.
C2_RandomFailureCount ==
  Selected("Random Failure") =>
    /\ Len(ret.edges) = Max2(1, (Cardinality(G) * args.sev) \div SevDen)
    /\ NoDuplicates(ret.edges)
    /\ Range(ret.edges) \subseteq G

\* A Random Failure call that removed two edges where floor and ceil differ.
C2_Witness ==
  /\ Selected("Random Failure")
  /\ Len(ret.edges) = 2
  /\ CeilTimes(Cardinality(G), args.sev) = 3

\* p is ranked before q in the betweenness items bet: higher betweenness, or
\* equal and earlier.
RankedBefore(bet, p, q) ==
  \E i, j \in 1..Len(bet) :
    /\ UPair(bet[i][1][1], bet[i][1][2]) = p
    /\ UPair(bet[j][1][1], bet[j][1][2]) = q
    /\ \/ bet[i][2] > bet[j][2]
       \/ bet[i][2] = bet[j][2] /\ i < j

\* The removal set is every edge over the top K unordered pairs.
TargetedIsTopK(K) ==
  LET T == {UPair(e[1], e[2]) : e \in Range(ret.edges)}
      bet == edge_betweenness_centrality(G)
  IN /\ Cardinality(T) = K
     /\ NoDuplicates(ret.edges)
     /\ Range(ret.edges) = {e \in G : UPair(e[1], e[2]) \in T}
     /\ \A p \in T : \A q \in UPairs(G) \ T : RankedBefore(bet, p, q)

\* C3 as stated: Targeted Attack removes every edge over the top K unordered
\* pairs by betweenness, K = max(1, ceil(severity * E)), E the number of
\* edges of the network.
C3_Original ==
  (Selected("Targeted Attack (Top k%)") /\ args.sev > 0) =>
    TargetedIsTopK(Max2(1, CeilTimes(Cardinality(G), args.sev)))

\* C3 as amended: K = max(1, floor(severity * P)), P the number of unordered
\* node pairs joined by an edge; at least one pair is always selected.
C3_TargetedTopPairs ==
  (Selected("Targeted Attack (Top k%)") /\ args.sev > 0) =>
    /\ TargetedIsTopK(Max2(1, (Cardinality(UPairs(G)) * args.sev) \div SevDen))
    /\ Len(ret.edges) >= 1

\* A Targeted Attack where severity * P < 1 and betweenness, not the edge
\* order, decides: the one selected pair is not the first undirected edge.
C3_Witness ==
  /\ Selected("Targeted Attack (Top k%)")
  /\ args.sev > 0
  /\ Cardinality(UPairs(G)) * args.sev < SevDen
  /\ Len(ret.edges) = 1
  /\ UPair(ret.edges[1][1], ret.edges[1][2]) # UEdgeOrder(G)[1]

\* ------------------------------------------- simulate_single_shock alone
\* An identifier that names no edge of S.
AbsentId(S) == CHOOSE e \in EdgeIds : e \notin S /\ e[1] # e[2]

\* The removal lists passed for the network S: empty, absent identifiers,
\* repeated identifiers, part of the network and all of it.
RemovalLists(S) ==
  {<<>>, <<AbsentId(S)>>}
  \cup (IF S = {} THEN {}
        ELSE {<<First(S)>>, <<Last(S), Last(S)>>, <<AbsentId(S), Last(S)>>,
              <<Last(S), First(S), Last(S)>>, EdgeList(S)})

PairCounts == {0, 1, MaxPairs}

\* The seeds the calls are made with.
ShockSeeds == {0, MaxSeed}

ShockArgs(ids, np, sd) == [ids |-> ids, n_pairs |-> np, seed |-> sd]

InitShock ==
  /\ pc = "idle"
  /\ \E S \in Networks : heap = NewHeap(S)
  /\ args = ShockArgs(<<>>, 0, 0)
  /\ ret = "none"
  /\ rows = <<>>
  /\ log = <<>>
  /\ loc = NoLocals
  /\ env = 0

\* One call of simulate_single_shock on the shared network.
ShockCall ==
  /\ pc = "idle"
  /\ \E ids \in RemovalLists(G), np \in PairCounts, sd \in ShockSeeds :
       \E r \in {simulate_single_shock(heap, ids, np, sd)} :
          /\ args' = ShockArgs(ids, np, sd)
          /\ heap' = r.heap
          /\ ret' = r.ret
          /\ pc' = IF r.ret.err = "none" THEN "returned" ELSE "raised"
  /\ UNCHANGED <<rows, log, loc, env>>

\* The caller takes the result (or the error); the copy is garbage.
ShockDone ==
  /\ pc \in {"returned", "raised"}
  /\ pc' = "idle"
  /\ heap' = [heap EXCEPT !.tmp = {}]
  /\ args' = ShockArgs(<<>>, 0, 0)
  /\ ret' = "none"
  /\ UNCHANGED <<rows, log, loc, env>>

NextShock == ShockCall \/ ShockDone

SpecShock == InitShock /\ [][NextShock]_vars

Neutral == Metrics("none", <<1, 1>>, <<1, 1>>, <<0, 1>>, 0, 0)

\* The listed identifiers that are edges of the network.
Present(S, ids) == Range(ids) \cap S

\* C1: a call that removes zero edges returns exactly the neutral record and
\* samples nothing, so it never raises.
C1_NeutralWhenNothingRemoved ==
  (pc \in {"returned", "raised"} /\ Present(G, args.ids) = {}) =>
    /\ pc = "returned"
    /\ ret = Neutral

\* A call whose list names only an absent edge, on a network where sampling
\* one pair with that seed would raise.
C1_Witness ==
  /\ pc = "returned"
  /\ args.ids # <<>>
  /\ Present(G, args.ids) = {}
  /\ sample_od_pairs(G, args.n_pairs, args.seed).err # "none"
  /\ ret = Neutral

\* C6: no call of simulate_single_shock changes the network it was given,
\* whether it returns or raises: edges leave only the private copy.
C6_NetworkNeverMutated == [][heap'.g = heap.g]_vars

\* A call that removed an edge from its copy and then raised.
C6_Witness ==
  /\ pc = "raised"
  /\ args.ids # <<>>
  /\ heap.tmp # heap.g

\* The sampled pairs that have a path in the network S.
Retained(S, pairs) ==
  SelectSeq(pairs, LAMBDA p : ~astar_path_length(S, p[1], p[2], weight_attr(S)).nopath)

\* The pairs among them that have no path in the damaged network.
Disconnected(S, damaged, pairs) ==
  SelectSeq(Retained(S, pairs),
            LAMBDA p : astar_path_length(damaged, p[1], p[2], weight_attr(S)).nopath)

Saturated(n) ==
  Metrics("none", <<PenaltyRatio, 1>>, <<PenaltyRatio, 1>>, <<100, 1>>, n, 0)

\* C7: where an edge was removed, n_pairs is the number of retained pairs
\* (sampled pairs with a baseline path) and pct_disconnected is
\* 100 * disconnected / retained; with no pair retained the result is the
\* saturated record.
C7_PairAccounting ==
  (pc = "returned" /\ ret.n_removed_edges >= 1) =>
    LET sampled == sample_od_pairs(G, args.n_pairs, args.seed).pairs
        kept == Len(Retained(G, sampled))
        lost == Len(Disconnected(G, heap.tmp, sampled))
    IN /\ ret.n_pairs = kept
       /\ kept > 0 => ret.pct_disconnected = Rat(100 * lost, kept)
       /\ kept = 0 => ret = Saturated(Cardinality(Present(G, args.ids)))

\* A call with two retained pairs of which exactly one lost its path.
C7_Witness ==
  /\ pc = "returned"
  /\ ret.n_removed_edges >= 1
  /\ ret.n_pairs = 2
  /\ ret.pct_disconnected = <<50, 1>>

\* C11: the removal loop is idempotent over the list: absent identifiers and
\* repeats are skipped without error (a call raises only what sampling on the
\* original network raises), n_removed_edges is the number of distinct listed
\* identifiers that are edges of the original network, and the damaged network
\* is the original minus exactly that set -- the same as for the list of that
\* set in network order without repeats.
C11_RemovalIdempotent ==
  pc \in {"returned", "raised"} =>
    LET present == Present(G, args.ids)
        canon == RemoveLoop([heap EXCEPT !.tmp = heap.g], "tmp", EdgeList(present), 0)
    IN /\ heap.tmp = G \ present
       /\ heap.tmp = canon.heap.tmp
       /\ pc = "returned" =>
            /\ ret.n_removed_edges = Cardinality(present)
            /\ ret.n_removed_edges = canon.n_removed
       /\ pc = "raised" =>
            /\ present # {}
            /\ ret = Raised(sample_od_pairs(G, args.n_pairs, args.seed).err)

\* A call that returned for a list of three identifiers naming two edges, one
\* of them twice and out of network order, on a network with more edges.
C11_Witness ==
  /\ pc = "returned"
  /\ Len(args.ids) = 3
  /\ args.ids[1] = args.ids[3]
  /\ EdgeLess(args.ids[2], args.ids[1])
  /\ ret.n_removed_edges = 2
  /\ heap.tmp # {}
  /\ heap.tmp = G \ {args.ids[1], args.ids[2]}

\* --------------------------------------------------- sample_od_pairs alone
SampleArgs(np, sd) == [n_pairs |-> np, seed |-> sd]

InitSampler ==
  /\ pc = "loop"
  /\ \E S \in Networks : heap = NewHeap(S)
  /\ \E np \in PairCounts, sd \in Seeds :
       /\ args = SampleArgs(np, sd)
       /\ ret = SampleStart(sd)
  /\ rows = <<>>
  /\ log = <<>>
  /\ loc = NoLocals
  /\ env = 0

\* One pass of the while loop.
SampleIter ==
  /\ pc = "loop"
  /\ SampleMore(ret, args.n_pairs)
  /\ ret' = SampleStep(LargestComponent(G), ret)
  /\ UNCHANGED <<pc, heap, args, rows, log, loc, env>>

\* The loop ends (or an error leaves it): return the pairs or raise.
SampleExit ==
  /\ pc = "loop"
  /\ ~SampleMore(ret, args.n_pairs)
  /\ ret' = SampleEnd(ret)
  /\ pc' = IF SampleEnd(ret).err = "none" THEN "returned" ELSE "raised"
  /\ UNCHANGED <<heap, args, rows, log, loc, env>>

NextSampler == SampleIter \/ SampleExit

SpecSampler == InitSampler /\ [][NextSampler]_vars

\* C8: at most 20 * n_pairs draws; a return carries 1..n_pairs pairs of
\* distinct endpoints; the only error is the sampling-exhaustion error, raised
\* exactly when no draw was accepted, which includes every network whose
\* largest component has fewer than two nodes.
C8_SamplerContract ==
  /\ ret.attempts <= RetryFactor * args.n_pairs
  /\ pc = "returned" =>
       /\ Len(ret.pairs) \in 1..args.n_pairs
       /\ \A i \in 1..Len(ret.pairs) : ret.pairs[i][1] # ret.pairs[i][2]
  /\ pc = "raised" => ret.err = "RuntimeError" /\ ret.pairs = <<>>
  /\ (pc = "raised" /\ Cardinality(LargestComponentNodes(G)) < 2) =>
       ret.err = "RuntimeError"

\* ------------------------------------------------ the progressive sweep
\* load_city_graph(city): the drivable network of the city, read anew from
\* the provider (or its cache file) by every call.
load_city_graph(city) ==
  CASE city = "Chicago, Illinois, USA" ->
         {<<1, 2, 0>>, <<2, 1, 0>>, <<2, 3, 0>>, <<3, 2, 0>>, <<3, 4, 0>>, <<4, 3, 0>>}
    [] city = "Pittsburgh, Pennsylvania, USA" ->
         {<<1, 2, 0>>, <<1, 2, 1>>, <<2, 3, 0>>, <<3, 1, 0>>, <<3, 4, 0>>}
    [] city = "Dallas, Texas, USA" ->
         {<<1, 2, 0>>, <<2, 1, 0>>, <<3, 4, 0>>}

Cities == {"Chicago, Illinois, USA", "Pittsburgh, Pennsylvania, USA", "Dallas, Texas, USA"}

\* The tags of a city network: its first edge is a bridge, its last a tunnel,
\* its key-0 edges major roads.
CityTags(S) ==
  [bridge |-> {First(S)}, tunnel |-> {Last(S)}, major |-> {e \in S : e[3] = 0}]

RECURSIVE SeqsUpTo(_, _)
\* The sequences over X of length at most n.
SeqsUpTo(X, n) ==
  IF n = 0 THEN {<<>>}
  ELSE LET P == SeqsUpTo(X, n - 1)
       IN P \cup {Append(q, x) : q \in P, x \in X}

\* The severity lists of a sweep.
SeverityLists == SeqsUpTo({1, SevDen}, MaxSevs)

SweepArgs(c, sc, svs, np, r, pl, b) ==
  [city |-> c, scenario |-> sc, severities |-> svs, n_pairs |-> np,
   runs_per_severity |-> r, polys |-> pl, base_seed |-> b]

SweepScenarios ==
  {"Random Failure", "Targeted Attack (Top k%)", "Bridge Collapse", "Earthquake"}

\* seed = base_seed + i + run: the stride forgotten.
CellSeedNoStride(base_seed, i, run) == base_seed + i + run

\* seed = base_seed + i * 100 + run
CellSeed(base_seed, i, run) == base_seed + i * SeedStride + run

\* The loop position after the cell (i, run): the next repeat, else the next
\* severity.
NextCell(i, run, R) == IF run + 1 < R THEN [i |-> i, run |-> run + 1]
                       ELSE [i |-> i + 1, run |-> 0]

\* Is there a cell at the position?
HasCell(q, l) == q.runs_per_severity > 0 /\ l.i < Len(q.severities)

\* The body of the two loops for the cell (i, run): select, simulate, and the
\* row to append; sel_seed and sim_seed note the seed each call was given.
Cell(h, q, i, run) ==
  LET sev == q.severities[i + 1]
      seed == CellSeed(q.base_seed, i, run)
      sel == select_edges_for_scenario(
               h.g, Query(q.scenario, sev, seed, CityTags(h.g), q.polys))
      sim == simulate_single_shock(h, sel.edges, q.n_pairs, seed)
  IN IF sel.err # "none" THEN [err |-> sel.err, heap |-> h, row |-> <<>>]
     ELSE [err |-> sim.ret.err, heap |-> sim.heap,
           row |-> <<[city |-> q.city, scenario |-> q.scenario, severity |-> sev,
                      run |-> run, metrics |-> sim.ret, removed |-> sel.edges,
                      sel_seed |-> seed, sim_seed |-> seed]>>]

InitSweep ==
  /\ pc = "sweep"
  /\ \E c \in Cities, sc \in SweepScenarios, svs \in SeverityLists,
        np \in {0, MaxPairs}, r \in 0..MaxRuns, b \in Seeds :
       /\ args = SweepArgs(c, sc, svs, np, r, NoPolys, b)
       /\ heap = NewHeap(load_city_graph(c))
  /\ ret = <<>>
  /\ rows = <<>>
  /\ log = <<>>
  /\ loc = [exec |-> 1, i |-> 0, run |-> 0]
  /\ env \in Seeds

\* One pass of the inner loop: one (severity, repeat) cell.
SweepCell ==
  /\ pc = "sweep"
  /\ HasCell(args, loc)
  /\ \E c \in {Cell(heap, args, loc.i, loc.run)} :
       /\ heap' = c.heap
       /\ IF c.err # "none"
            THEN /\ pc' = "failed"
                 /\ UNCHANGED <<rows, loc>>
            ELSE /\ pc' = "sweep"
                 /\ rows' = rows \o c.row
                 /\ loc' = [loc EXCEPT
                              !.i = NextCell(loc.i, loc.run, args.runs_per_severity).i,
                              !.run = NextCell(loc.i, loc.run, args.runs_per_severity).run]
  /\ UNCHANGED <<args, ret, log, env>>

\* The first execution returns its table; an independent second execution of
\* the same call starts: the network is loaded again, the entropy is new.
SweepAgain ==
  /\ pc = "sweep"
  /\ ~HasCell(args, loc)
  /\ loc.exec = 1
  /\ ret' = rows
  /\ rows' = <<>>
  /\ heap' = NewHeap(load_city_graph(args.city))
  /\ loc' = [exec |-> 2, i |-> 0, run |-> 0]
  /\ env' \in Seeds
  /\ UNCHANGED <<pc, args, log>>

\* The second execution returns its table.
SweepReturn ==
  /\ pc = "sweep"
  /\ ~HasCell(args, loc)
  /\ loc.exec = 2
  /\ pc' = "done"
  /\ UNCHANGED <<heap, args, ret, rows, log, loc, env>>

NextSweep == SweepCell \/ SweepAgain \/ SweepReturn

SpecSweep == InitSweep /\ [][NextSweep]_vars

\* The rows a finished table holds: one per cell.
TableDone == pc = "done" \/ (pc = "sweep" /\ ~HasCell(args, loc))

\* C4: with no failed cell the table has |S| * R rows, and row i*R + r is the
\* cell (i, r): severity S[i], run r, both calls seeded base_seed + i*100 + r.
C4_RowsInCellOrder ==
  LET R == args.runs_per_severity
  IN /\ pc # "failed" =>
          \A k \in 1..Len(rows) :
            LET i == (k - 1) \div R
                r == (k - 1) % R
            IN /\ i < Len(args.severities)
               /\ rows[k].severity = args.severities[i + 1]
               /\ rows[k].run = r
               /\ rows[k].sel_seed = args.base_seed + i * 100 + r
               /\ rows[k].sim_seed = args.base_seed + i * 100 + r
     /\ TableDone => Len(rows) = Len(args.severities) * R

\* A finished table of two severities and two repeats.
C4_Witness ==
  /\ pc = "done"
  /\ Len(rows) = 4
  /\ rows[3].severity # rows[2].severity
  /\ rows[4].sel_seed = args.base_seed + 101

\* C5: two independent executions of a sweep with the same inputs and base
\* seed give the same removal sets and the same table, row for row, and the
\* second fails only if the first did; nothing depends on the entropy or on
\* what an earlier call left.
C5_SweepDeterministic ==
  /\ (loc.exec = 2 /\ pc # "failed") =>
       /\ Len(rows) <= Len(ret)
       /\ \A k \in 1..Len(rows) : rows[k] = ret[k]
  /\ pc = "done" => rows = ret
  /\ pc = "failed" => loc.exec = 1

\* Two finished executions of a Random Failure sweep, under different
\* entropy, whose cells removed different edges.
C5_Witness ==
  /\ pc = "done"
  /\ args.scenario = "Random Failure"
  /\ Len(rows) >= 2
  /\ rows[1].removed # rows[2].removed
  /\ rows[1].metrics.n_pairs > 0

\* ------------------------------------------- the seeds of a sweep's cells
\* The repeat counts of the calls: none, a few, and as many as the stride of
\* the seed formula and one more (runs_per_severity is any int).
RepeatCounts == (0..MaxRuns) \cup {SeedStride, SeedStride + 1}

\* The loops of run_progressive_damage_experiment with the two calls of the
\* body left out: rows notes the seed each cell derives.
InitSeeds ==
  /\ pc = "seeds"
  /\ \E svs \in SeverityLists, r \in RepeatCounts, b \in {0, DefaultBaseSeed} :
       args = SweepArgs("Chicago, Illinois, USA", "Random Failure", svs, 0, r,
                        NoPolys, b)
  /\ heap = NewHeap({})
  /\ ret = "none"
  /\ rows = <<>>
  /\ log = <<>>
  /\ loc = [exec |-> 1, i |-> 0, run |-> 0]
  /\ env = 0

\* One pass of the inner loop: seed = base_seed + i * 100 + run.
SeedCell ==
  /\ pc = "seeds"
  /\ HasCell(args, loc)
  /\ rows' = Append(rows, [i |-> loc.i, run |-> loc.run,
                           seed |-> CellSeed(args.base_seed, loc.i, loc.run)])
  /\ loc' = [loc EXCEPT
               !.i = NextCell(loc.i, loc.run, args.runs_per_severity).i,
               !.run = NextCell(loc.i, loc.run, args.runs_per_severity).run]
  /\ UNCHANGED <<pc, heap, args, ret, log, env>>

\* Both loops are over.
SeedsDone ==
  /\ pc = "seeds"
  /\ ~HasCell(args, loc)
  /\ pc' = "done"
  /\ UNCHANGED <<heap, args, ret, rows, log, loc, env>>

NextSeeds == SeedCell \/ SeedsDone

SpecSeeds == InitSeeds /\ [][NextSeeds]_vars

\* C12: no two distinct cells of one sweep are run with the same seed, for
\* every number of severities and every runs_per_severity. Every prefix of the
\* cells is a state, so it is enough that the newest cell's seed differs from
\* the seed of every earlier cell.
C12_CellSeedsDistinct ==
  \A a \in 1..(Len(rows) - 1) : rows[a].seed # rows[Len(rows)].seed

\* ------------------------------------------------- the hazard download
\* What the download meets: is there a cache file and does it parse; does
\* the geocoder resolve the city; does the HTTP request succeed and decode;
\* is the decoded JSON an object; can the cache be written; and the features,
\* each with a geometry that parses (ok) to a polygon over the edges hits.
HazardEnv(ce, co, gc, ht, ob, wr, fs) ==
  [cache_exists |-> ce, cache_ok |-> co, geocode_ok |-> gc, http_ok |-> ht,
   is_object |-> ob, write_ok |-> wr, features |-> fs]

Feature(ok, hits) == [ok |-> ok, hits |-> hits]

FeatureLists(S) ==
  {<<>>, <<Feature(FALSE, {})>>, <<Feature(TRUE, {First(S)})>>,
   <<Feature(FALSE, {}), Feature(TRUE, {Last(S)})>>}

HazardEnvs(S) ==
  {HazardEnv(ce, co, gc, ht, ob, wr, fs) :
     ce \in BOOLEAN, co \in BOOLEAN, gc \in BOOLEAN, ht \in BOOLEAN,
     ob \in BOOLEAN, wr \in BOOLEAN, fs \in FeatureLists(S)}

\* for feat in geo.get("features", []): the geometries that parse, the others
\* skipped.
ParsedFeatures(fs) ==
  LET good == SelectSeq(fs, LAMBDA f : f.ok)
  IN [i \in 1..Len(good) |-> good[i].hits]

Outcome(e, v, ev) == [err |-> e, value |-> v, events |-> ev]

\* download_usgs_flood_features_for_city(city) in the environment e: the
\* error it lets through or the value it returns, and its external accesses.
download_usgs_flood_features_for_city(e) ==
  IF e.cache_exists
    THEN IF e.cache_ok /\ e.is_object /\ \A i \in 1..Len(e.features) : e.features[i].ok
           THEN Outcome("none", Polys(ParsedFeatures(e.features)), <<"cache_read">>)
           ELSE Outcome("none", NoPolys, <<"cache_read">>)
  ELSE IF ~e.geocode_ok
    THEN Outcome("GeocodeError", NoPolys, <<"geocode">>)
  ELSE IF ~e.http_ok
    THEN Outcome("none", NoPolys, <<"geocode", "http_get">>)
  ELSE IF ~e.is_object
    THEN Outcome("AttributeError", NoPolys, <<"geocode", "http_get", "cache_write">>)
  ELSE IF ParsedFeatures(e.features) = <<>>
    THEN Outcome("none", NoPolys, <<"geocode", "http_get", "cache_write">>)
  ELSE Outcome("none", Polys(ParsedFeatures(e.features)),
               <<"geocode", "http_get", "cache_write">>)

\* ------------------------------------------------------ the entry points
\* A check that lets every name through.
ScenarioKnownAny(sc) == TRUE

\* if req.scenario not in SCENARIOS: raise ValueError
ScenarioKnown(sc) == sc \in SCENARIOS

Request(ep, c, sc, sv, svs, np, r, use) ==
  [endpoint |-> ep, city |-> c, scenario |-> sc, severity |-> sv,
   severities |-> svs, n_pairs |-> np, runs_per_severity |-> r,
   use_usgs_flood |-> use]

Requests ==
  {Request("simulate", c, sc, sv, <<>>, MaxPairs, 0, use) :
     c \in Cities, sc \in SCENARIOS \cup {"Earthquake"}, sv \in {1, SevDen},
     use \in BOOLEAN}
  \cup {Request("progressive", c, sc, 0, svs, MaxPairs, r, use) :
     c \in Cities, sc \in SCENARIOS \cup {"Earthquake"},
     svs \in {<<SevDen>>, <<1, SevDen>>}, r \in {1, MaxRuns}, use \in BOOLEAN}

Failure(e, at) == [err |-> e, at |-> at, rows |-> <<>>]

InitApi ==
  /\ pc = "request"
  /\ args \in Requests
  /\ heap = NewHeap({})
  /\ ret = "none"
  /\ rows = <<>>
  /\ log = <<>>
  /\ loc = [polys |-> NoPolys, i |-> 0, run |-> 0]
  /\ env \in Seeds

\* The first statement of both handlers: the scenario check.
ApiValidate ==
  /\ pc = "request"
  /\ IF ScenarioKnown(args.scenario)
       THEN pc' = "hazard" /\ ret' = ret
       ELSE pc' = "rejected" /\ ret' = Failure("ValueError", "validate")
  /\ UNCHANGED <<heap, args, rows, log, loc, env>>

\* flood_polys: fetched only for a Highway Flood that asked for hazard data.
ApiHazard ==
  /\ pc = "hazard"
  /\ IF args.use_usgs_flood /\ args.scenario = "Highway Flood"
       THEN \E e \in HazardEnvs(load_city_graph(args.city)) :
              \E d \in {download_usgs_flood_features_for_city(e)} :
                /\ log' = log \o d.events
                /\ IF d.err # "none"
                     THEN /\ pc' = "error"
                          /\ ret' = Failure(d.err, "hazard")
                          /\ loc' = loc
                     ELSE /\ pc' = "run"
                          /\ ret' = ret
                          /\ loc' = [loc EXCEPT !.polys = d.value]
       ELSE /\ pc' = "run"
            /\ UNCHANGED <<ret, log, loc>>
  /\ UNCHANGED <<heap, args, rows, env>>

\* The handler calls the experiment, which first loads the city's network.
ApiLoad ==
  /\ pc = "run"
  /\ pc' = "cells"
  /\ heap' = NewHeap(load_city_graph(args.city))
  /\ log' = Append(log, "graph_load")
  /\ UNCHANGED <<args, ret, rows, loc, env>>

\* /simulate: run_single_scenario_for_city selects and simulates once on the
\* loaded network; the handler passes no seed, so both calls get seed=None.
ApiSingle ==
  /\ pc = "cells"
  /\ args.endpoint = "simulate"
  /\ \E sel \in {select_edges_for_scenario(
                   G, Query(args.scenario, args.severity, NoSeed, CityTags(G),
                            loc.polys))} :
       IF sel.err # "none"
         THEN /\ pc' = "error"
              /\ ret' = Failure(sel.err, "run")
              /\ UNCHANGED <<heap, rows>>
         ELSE \E sim \in {simulate_single_shock(heap, sel.edges, args.n_pairs, NoSeed)} :
                /\ heap' = sim.heap
                /\ IF sim.ret.err # "none"
                     THEN /\ pc' = "error"
                          /\ ret' = Failure(sim.ret.err, "run")
                          /\ rows' = rows
                     ELSE /\ pc' = "responded"
                          /\ ret' = ret
                          /\ rows' = <<[city |-> args.city, scenario |-> args.scenario,
                                        severity |-> args.severity,
                                        metrics |-> sim.ret]>>
  /\ UNCHANGED <<args, log, loc, env>>

\* The arguments /progressive passes on: base_seed is left at its default.
ProgressiveArgs(q, polys) ==
  SweepArgs(q.city, q.scenario, q.severities, q.n_pairs, q.runs_per_severity,
            polys, DefaultBaseSeed)

\* /progressive: one cell of run_progressive_damage_experiment's loops; a cell
\* that raises fails the request and the table is lost.
ApiCell ==
  /\ pc = "cells"
  /\ args.endpoint = "progressive"
  /\ HasCell(args, loc)
  /\ \E c \in {Cell(heap, ProgressiveArgs(args, loc.polys), loc.i, loc.run)} :
       /\ heap' = c.heap
       /\ IF c.err # "none"
            THEN /\ pc' = "error"
                 /\ ret' = Failure(c.err, "run")
                 /\ rows' = <<>>
                 /\ loc' = loc
            ELSE /\ pc' = "cells"
                 /\ ret' = ret
                 /\ rows' = rows \o c.row
                 /\ loc' = [loc EXCEPT
                              !.i = NextCell(loc.i, loc.run, args.runs_per_severity).i,
                              !.run = NextCell(loc.i, loc.run, args.runs_per_severity).run]
  /\ UNCHANGED <<args, log, env>>

\* /progressive: the loops are over, the table is the response.
ApiRespond ==
  /\ pc = "cells"
  /\ args.endpoint = "progressive"
  /\ ~HasCell(args, loc)
  /\ pc' = "responded"
  /\ UNCHANGED <<heap, args, ret, rows, log, loc, env>>

NextApi ==
  ApiValidate \/ ApiHazard \/ ApiLoad \/ ApiSingle \/ ApiCell \/ ApiRespond

SpecApi == InitApi /\ [][NextApi]_vars

\* C9: an unknown scenario is rejected with a validation error before any
\* network access: in both endpoints no hazard fetch and no graph load
\* precedes the rejection, and select_edges_for_scenario raises before it
\* reads the network.
C9_RejectBeforeAccess ==
  args.scenario \notin SCENARIOS =>
    /\ log = <<>>
    /\ pc \in {"request", "rejected"}
    /\ pc = "rejected" => ret = Failure("ValueError", "validate")
    /\ LET sel == select_edges_for_scenario(
                    load_city_graph(args.city),
                    Query(args.scenario, SevDen, 0, NoTags, NoPolys))
       IN sel.err = "ValueError" /\ ~sel.read

\* A progressive request with an unknown scenario and the hazard flag set,
\* rejected.
C9_Witness ==
  /\ pc = "rejected"
  /\ args.endpoint = "progressive"
  /\ args.use_usgs_flood
  /\ args.scenario = "Earthquake"

\* C10: the hazard download never lets an error through, so a Highway Flood
\* request that asked for hazard data is never failed by the download.
C10_DownloadNeverRaises == ~(pc = "error" /\ ret.at = "hazard")

====
